---- MODULE Spec2Model ----
(***************************************************************************)
(* A model of the ebook layouter's two cores:                              *)
(*   - the chapter/settings store (src/project/src/store/useEbookStore.ts) *)
(*     under the specifications Spec, CrudSpec, ListSpec and InsertSpec;   *)
(*   - the table-of-contents extractor (src/unnamed/part_000) under the    *)
(*     specifications TocSpec (the scan) and ExtractSpec (the whole call). *)
(* Text is a sequence of one-character strings, a page is the sequence of  *)
(* its lines (what text.split('\n') returns).  A chapter's content is      *)
(* represented by its length, the only thing the store reads of it.        *)
(* title, indentation and lineSpacing of a chapter and the settings no     *)
(* operation reads (fonts other than paragraph, header, footer, ...) are   *)
(* carried unchanged by every operation and are left out.                  *)
(***************************************************************************)
EXTENDS Integers, Sequences, FiniteSets, TLC

VARIABLES
    chapters,             \* store: Chapter[]
    settings,             \* store: EbookSettings (the fields pagination reads)
    nextId,               \* the next identifier crypto.randomUUID() hands out
    lastOp,               \* the store operation that returned last
    pagesText,            \* extractor: the pages, each a sequence of lines
    phase,                \* extractor: position of the scan
    pageIndex,            \* extractor: index of the page being scanned
    lineIndex,            \* extractor: index of the line being scanned
    tableOfContents,      \* extractor: the entries pushed so far
    seenHeadings,         \* extractor: the Set of headings recorded
    pageCounter,          \* extractor
    isMainContentStarted, \* extractor
    romanIndex,           \* extractor
    emittedKeys,          \* history: the heading text behind each entry pushed
    pdf,                  \* extractTableOfContents: the pages the document holds
    callStage,            \* extractTableOfContents: position of the call
    thrown,               \* extractTableOfContents: the error raised inside try
    outcome               \* extractTableOfContents: what the caller gets

storeVars == <<chapters, settings, nextId, lastOp>>
extractVars == <<pdf, callStage, thrown, outcome>>
tocVars == <<pagesText, phase, pageIndex, lineIndex, tableOfContents,
             seenHeadings, pageCounter, isMainContentStarted, romanIndex,
             emittedKeys, pdf, callStage, thrown, outcome>>
vars == <<chapters, settings, nextId, lastOp, pagesText, phase, pageIndex,
          lineIndex, tableOfContents, seenHeadings, pageCounter,
          isMainContentStarted, romanIndex, emittedKeys, pdf, callStage,
          thrown, outcome>>

---------------------------------------------------------------------------
(* Bounds of the model *)

\* identifiers handed out in one run of Spec (chapters and subchapters)
MaxIds == 2
\* identifiers handed out in one run of CrudSpec
MaxCrudIds == 2
\* chapters of a store ListSpec starts from
MaxList == 2
\* pages of a document given to the extractor
\* entries of the store an addChapter call is made on
MaxInsert == 3
MaxPages == 3
\* pages of a document handed to extractTableOfContents
MaxPdfPages == 2

---------------------------------------------------------------------------
(* JavaScript numbers: an integer, NaN, +Infinity or -Infinity; undefined *)

Num(n) == [k |-> "num", v |-> n]
NaN == [k |-> "nan", v |-> 0]
Infinity == [k |-> "inf", v |-> 1]
NegInfinity == [k |-> "inf", v |-> -1]
Undefined == [k |-> "undef", v |-> 0]

\* a + b
JsAdd(a, b) ==
    IF a.k = "nan" \/ b.k = "nan" THEN NaN
    ELSE IF a.k = "inf" /\ b.k = "inf" THEN (IF a.v = b.v THEN a ELSE NaN)
    ELSE IF a.k = "inf" THEN a
    ELSE IF b.k = "inf" THEN b
    ELSE Num(a.v + b.v)

\* Math.max(1, x)
JsMax1(x) ==
    IF x.k = "nan" THEN NaN
    ELSE IF x.k = "inf" THEN (IF x.v = 1 THEN Infinity ELSE Num(1))
    ELSE IF x.v > 1 THEN x ELSE Num(1)

---------------------------------------------------------------------------
(* Settings.  Margins are in hundredths of a centimetre (2.54 cm = 254),   *)
(* the paragraph line height in tenths (1.5 = 15), so that the arithmetic  *)
(* of calculatePageNumbers is exact integer arithmetic.                    *)

defaultSettings ==
    [ coverImage |-> "null",
      paperSize  |-> "A4",
      margins    |-> [top |-> 254, bottom |-> 254, left |-> 254, right |-> 254],
      fonts      |-> [paragraph |-> [size |-> 12, lineHeight |-> 15]] ]

\* pageWidth / pageHeight in mm
PageWidth(s) == IF s.paperSize = "A4" THEN 210 ELSE 216
PageHeight(s) == IF s.paperSize = "A4" THEN 297 ELSE 279

\* contentWidth / contentHeight in tenths of a mm:
\* page - (a + b) * 10 mm, with a, b in hundredths of a cm
ContentWidth10(s) == PageWidth(s) * 10 - (s.margins.left + s.margins.right)
ContentHeight10(s) == PageHeight(s) * 10 - (s.margins.top + s.margins.bottom)

\* Math.floor(contentWidth / (size * 0.352778)); 0.352778 = 176389 / 500000
CharsPerLine(s) ==
    (ContentWidth10(s) * 50000) \div (s.fonts.paragraph.size * 176389)

\* Math.floor(contentHeight / (size * lineHeight * 0.352778))
LinesPerPage(s) ==
    (ContentHeight10(s) * 500000)
        \div (s.fonts.paragraph.size * s.fonts.paragraph.lineHeight * 176389)

CharsPerPage(s) == CharsPerLine(s) * LinesPerPage(s)

\* the product is -0 when one factor is 0 and the other is negative
CharsPerPageIsNegZero(s) ==
    \/ CharsPerLine(s) = 0 /\ LinesPerPage(s) < 0
    \/ LinesPerPage(s) = 0 /\ CharsPerLine(s) < 0

\* Math.ceil(length / charsPerPage), length >= 0
CeilPages(length, s) ==
    LET cpp == CharsPerPage(s) IN
    IF cpp > 0 THEN Num(-((-length) \div cpp))
    ELSE IF cpp < 0 THEN Num(-(length \div (-cpp)))
    ELSE IF length = 0 THEN NaN
    ELSE IF CharsPerPageIsNegZero(s) THEN NegInfinity
    ELSE Infinity

---------------------------------------------------------------------------
(* The store: helpers *)

Types == {"frontmatter", "toc", "chapter", "backmatter"}
PreContent == {"frontmatter", "toc"}

Range(f) == {f[i] : i \in DOMAIN f}
SeqsUpTo(S, n) == UNION {[1..k -> S] : k \in 0..n}

\* { ...ch, ...partial }
Merge(ch, partial) ==
    [f \in DOMAIN ch |-> IF f \in DOMAIN partial THEN partial[f] ELSE ch[f]]

\* partial.f || default
OrDefault(partial, f, default) ==
    IF f \in DOMAIN partial THEN partial[f] ELSE default

\* chapters.filter(ch => ch.type === type)
RECURSIVE FilterType(_, _)
FilterType(chs, type) ==
    IF chs = <<>> THEN <<>>
    ELSE IF Head(chs).type = type
         THEN <<Head(chs)>> \o FilterType(Tail(chs), type)
         ELSE FilterType(Tail(chs), type)

\* chapters.filter(ch => ch.id !== id)
RECURSIVE FilterOutId(_, _)
FilterOutId(xs, id) ==
    IF xs = <<>> THEN <<>>
    ELSE IF Head(xs).id # id
         THEN <<Head(xs)>> \o FilterOutId(Tail(xs), id)
         ELSE FilterOutId(Tail(xs), id)

\* a renumbering that counts every entry, not only the chapters
RECURSIVE NumberByPosition(_, _)
NumberByPosition(chs, chapterNumber) ==
    IF chs = <<>> THEN <<>>
    ELSE IF Head(chs).type = "chapter"
         THEN <<[Head(chs) EXCEPT !.pageNumber = Num(chapterNumber)]>>
                  \o NumberByPosition(Tail(chs), chapterNumber + 1)
         ELSE <<Head(chs)>> \o NumberByPosition(Tail(chs), chapterNumber + 1)

\* let chapterNumber = n; chs.map(ch => ch.type === 'chapter'
\*     ? { ...ch, pageNumber: chapterNumber++ } : ch)
RECURSIVE NumberChapters(_, _)
NumberChapters(chs, chapterNumber) ==
    IF chs = <<>> THEN <<>>
    ELSE IF Head(chs).type = "chapter"
         THEN <<[Head(chs) EXCEPT !.pageNumber = Num(chapterNumber)]>>
                  \o NumberChapters(Tail(chs), chapterNumber + 1)
         ELSE <<Head(chs)>> \o NumberChapters(Tail(chs), chapterNumber)

\* while (insertIndex < length && type of [insertIndex] in T) insertIndex++
RECURSIVE SkipWhile(_, _, _)
SkipWhile(chs, insertIndex, T) ==
    IF insertIndex < Len(chs) /\ chs[insertIndex + 1].type \in T
    THEN SkipWhile(chs, insertIndex + 1, T)
    ELSE insertIndex

\* an insert index that puts a backmatter entry where a chapter would go
InsertIndexAsChapter(chs, type) ==
    IF type \in PreContent THEN SkipWhile(chs, 0, PreContent)
    ELSE SkipWhile(chs, SkipWhile(chs, 0, PreContent), {"chapter"})

\* the (0-based) index addChapter inserts a chapter of this type at
InsertIndex(chs, type) ==
    IF type \in PreContent THEN SkipWhile(chs, 0, PreContent)
    ELSE IF type = "chapter"
         THEN SkipWhile(chs, SkipWhile(chs, 0, PreContent), {"chapter"})
         ELSE Len(chs)

\* updatedChapters.splice(insertIndex, 0, newChapter)
Splice(chs, insertIndex, newChapter) ==
    SubSeq(chs, 1, insertIndex) \o <<newChapter>>
        \o SubSeq(chs, insertIndex + 1, Len(chs))

---------------------------------------------------------------------------
(* The store: calculatePageNumbers as a function of chapters and settings *)

\* images.reduce(...): 1 for an image wider than 50, else 0.5; Math.ceil.
\* Counted in half pages.
RECURSIVE HalfPages(_)
HalfPages(images) ==
    IF images = <<>> THEN 0
    ELSE (IF Head(images) > 50 THEN 2 ELSE 1) + HalfPages(Tail(images))

TotalImagePages(images) == (HalfPages(images) + 1) \div 2

\* a total without the floor of one page
TotalPagesUnfloored(chapter, s) ==
    JsAdd(CeilPages(chapter.content, s),
          Num(TotalImagePages(chapter.images)))

\* Math.max(1, contentPages + totalImagePages)
TotalPages(chapter, s) ==
    JsMax1(JsAdd(CeilPages(chapter.content, s),
                 Num(TotalImagePages(chapter.images))))

\* chapter.subChapters.map(...): the numbered subchapters and the counter left
RECURSIVE MapSubChapters(_, _, _)
MapSubChapters(subs, count, s) ==
    IF subs = <<>> THEN [subChapters |-> <<>>, count |-> count]
    ELSE LET sub == Head(subs)
             subPages == JsMax1(CeilPages(sub.content, s))
             rest == MapSubChapters(Tail(subs), JsAdd(count, subPages), s)
         IN [subChapters |->
                 <<[sub EXCEPT !.pageNumber = count]>> \o rest.subChapters,
             count |-> rest.count]

\* chapters.map(...) with the two running counters
RECURSIVE MapChapters(_, _, _, _)
MapChapters(chs, romanPageCount, arabicPageCount, s) ==
    IF chs = <<>> THEN <<>>
    ELSE LET chapter == Head(chs)
             isPreContent == chapter.type \in PreContent
             pageCount ==
                 IF isPreContent THEN romanPageCount ELSE arabicPageCount
             afterChapter ==
                 JsAdd(JsAdd(pageCount, Num(1)), TotalPages(chapter, s))
             subs == MapSubChapters(chapter.subChapters, afterChapter, s)
         IN <<[chapter EXCEPT !.pageNumber = pageCount,
                              !.subChapters = subs.subChapters]>>
                \o MapChapters(Tail(chs),
                      IF isPreContent THEN subs.count ELSE romanPageCount,
                      IF isPreContent THEN arabicPageCount ELSE subs.count,
                      s)

\* the arabic counter before the first chapter: 1, cover page, title page
ArabicStart(s) == IF s.coverImage # "null" THEN 3 ELSE 2

\* a recompute that takes the roman counter up where the first entry's
\* stored page number left it
PageNumbersFromStored(chs, s) ==
    MapChapters(chs,
                IF chs # <<>> /\ chs[1].pageNumber.k = "num"
                THEN chs[1].pageNumber ELSE Num(1),
                Num(ArabicStart(s)), s)

\* calculatePageNumbers: the chapters it stores
PageNumbers(chs, s) == MapChapters(chs, Num(1), Num(ArabicStart(s)), s)

---------------------------------------------------------------------------
(* The store: the operations as functions of the chapter list *)

\* addChapter(partial), with id the identifier crypto.randomUUID() returns
AddChapterResult(chs, id, partial) ==
    LET newChapter ==
            [ id          |-> id,
              content     |-> OrDefault(partial, "content", 0),
              images      |-> OrDefault(partial, "images", <<>>),
              type        |-> OrDefault(partial, "type", "chapter"),
              pageNumber  |-> Undefined,
              subChapters |-> OrDefault(partial, "subChapters", <<>>) ]
        updatedChapters ==
            Splice(chs, InsertIndex(chs, newChapter.type), newChapter)
    IN NumberChapters(updatedChapters, 1)

\* updateChapter(id, partial)
UpdateChapterResult(chs, id, partial) ==
    LET updatedChapters ==
            [i \in DOMAIN chs |->
                IF chs[i].id = id THEN Merge(chs[i], partial) ELSE chs[i]]
    IN NumberChapters(updatedChapters, 1)

\* removeChapter(id)
RemoveChapterResult(chs, id) == NumberChapters(FilterOutId(chs, id), 1)

\* a reordering that puts the chapters before the table of contents
ReorderedChaptersFirst(list) ==
    FilterType(list, "frontmatter")
        \o NumberChapters(FilterType(list, "chapter"), 1)
        \o FilterType(list, "toc") \o FilterType(list, "backmatter")

\* orderedChapters, the list reorderChapters(list) stores before it calls
\* calculatePageNumbers
Reordered(list) ==
    FilterType(list, "frontmatter") \o FilterType(list, "toc")
        \o NumberChapters(FilterType(list, "chapter"), 1)
        \o FilterType(list, "backmatter")

\* reorderChapters(list)
ReorderChaptersResult(list, s) == PageNumbers(Reordered(list), s)

\* an addSubChapter that recomputes the page numbers before it appends
AddSubChapterResultStale(chs, chapterId, id, s) ==
    LET paged == PageNumbers(chs, s)
    IN [i \in DOMAIN paged |->
           IF paged[i].id = chapterId
           THEN [paged[i] EXCEPT !.subChapters =
                    @ \o <<[id |-> id, content |-> 0,
                            pageNumber |-> Undefined]>>]
           ELSE paged[i]]

\* addSubChapter(chapterId, title), with id the new subchapter's identifier
AddSubChapterResult(chs, chapterId, id, s) ==
    LET added ==
            [i \in DOMAIN chs |->
                IF chs[i].id = chapterId
                THEN [chs[i] EXCEPT !.subChapters =
                         @ \o <<[id |-> id, content |-> 0,
                                 pageNumber |-> Undefined]>>]
                ELSE chs[i]]
    IN PageNumbers(added, s)

\* removeSubChapter(chapterId, subChapterId)
RemoveSubChapterResult(chs, chapterId, subChapterId, s) ==
    LET removed ==
            [i \in DOMAIN chs |->
                IF chs[i].id = chapterId
                THEN [chs[i] EXCEPT !.subChapters =
                         FilterOutId(@, subChapterId)]
                ELSE chs[i]]
    IN PageNumbers(removed, s)

---------------------------------------------------------------------------
(* The store: inputs the operations are called with *)

ChapterIds == {chapters[i].id : i \in DOMAIN chapters}
SubChapterIds ==
    UNION {{chapters[i].subChapters[j].id : j \in DOMAIN chapters[i].subChapters}
              : i \in DOMAIN chapters}

\* identifiers no chapter or subchapter carries
AbsentIds == {0}

\* content of a chapter, by length: '' and a text longer than a default page
ContentLengths == {0, 2000}

\* addChapter(partial): no field; a type and a content
AddPartials ==
    {[content |-> 0]} \cup [type : Types, content : ContentLengths]

\* updateChapter(id, partial): a type, a content or an identifier
UpdatePartials ==
    [type : Types] \cup [content : ContentLengths] \cup [id : ChapterIds]

\* addChapter(partial) in CrudSpec: no field; a type
CrudAddPartials == {[content |-> 0]} \cup [type : Types]

\* updateChapter(id, partial) in CrudSpec: a type, an identifier or a page
\* number
CrudUpdatePartials ==
    [type : Types] \cup [id : ChapterIds]
        \cup {[pageNumber |-> Num(7)]}

\* margins: the default, and 10.5 cm all round (no width left on A4)
MarginChoices ==
    { [top |-> 254, bottom |-> 254, left |-> 254, right |-> 254],
      [top |-> 1050, bottom |-> 1050, left |-> 1050, right |-> 1050] }

\* updateSettings(partial)
SettingsPartials ==
    [coverImage : {"null", "cover.png"}] \cup [margins : MarginChoices]

\* the lists a caller passes to reorderChapters: the current entries, each at
\* most once, in any order
ReorderLists ==
    {[i \in DOMAIN l |-> chapters[l[i]]] :
        l \in {m \in SeqsUpTo(DOMAIN chapters, Len(chapters)) :
                  \A i, j \in DOMAIN m : i # j => m[i] # m[j]}}

---------------------------------------------------------------------------
(* The store: operations *)

\* lastOp: the operation, whether the call before it was the same operation
\* (kept for calculatePageNumbers), and the types of the list passed (kept
\* for reorderChapters)
Op(name) == [op |-> name, again |-> FALSE, arg |-> <<>>]

StoreInit ==
    /\ chapters = <<>>
    /\ settings = defaultSettings
    /\ nextId = 1
    /\ lastOp = Op("create")

AddChapter(partial) ==
    /\ chapters' = AddChapterResult(chapters, nextId, partial)
    /\ nextId' = nextId + 1
    /\ lastOp' = Op("addChapter")
    /\ UNCHANGED settings

UpdateChapter(id, partial) ==
    /\ chapters' = UpdateChapterResult(chapters, id, partial)
    /\ lastOp' = Op("updateChapter")
    /\ UNCHANGED <<settings, nextId>>

RemoveChapter(id) ==
    /\ chapters' = RemoveChapterResult(chapters, id)
    /\ lastOp' = Op("removeChapter")
    /\ UNCHANGED <<settings, nextId>>

ReorderChapters(list) ==
    /\ chapters' = ReorderChaptersResult(list, settings)
    /\ lastOp' = [Op("reorderChapters") EXCEPT
                     !.arg = [i \in DOMAIN list |-> list[i].type]]
    /\ UNCHANGED <<settings, nextId>>

UpdateSettings(partial) ==
    /\ settings' = Merge(settings, partial)
    /\ lastOp' = Op("updateSettings")
    /\ UNCHANGED <<chapters, nextId>>

CalculatePageNumbers ==
    /\ chapters' = PageNumbers(chapters, settings)
    /\ lastOp' = [Op("calculatePageNumbers") EXCEPT
                     !.again = (lastOp.op = "calculatePageNumbers")]
    /\ UNCHANGED <<settings, nextId>>

AddSubChapter(chapterId) ==
    /\ chapters' = AddSubChapterResult(chapters, chapterId, nextId, settings)
    /\ nextId' = nextId + 1
    /\ lastOp' = Op("addSubChapter")
    /\ UNCHANGED settings

RemoveSubChapter(chapterId, subChapterId) ==
    /\ chapters' =
           RemoveSubChapterResult(chapters, chapterId, subChapterId, settings)
    /\ lastOp' = Op("removeSubChapter")
    /\ UNCHANGED <<settings, nextId>>

---------------------------------------------------------------------------
(* The extractor at rest, for the store's specifications *)

\* extractTableOfContents has not been called
ExtractIdle ==
    /\ pdf = <<>>
    /\ callStage = "idle"
    /\ thrown = "none"
    /\ outcome = [kind |-> "pending"]

TocIdle ==
    /\ ExtractIdle
    /\ pagesText = <<>>
    /\ phase = "idle"
    /\ pageIndex = 0
    /\ lineIndex = 0
    /\ tableOfContents = <<>>
    /\ seenHeadings = {}
    /\ pageCounter = 0
    /\ isMainContentStarted = FALSE
    /\ romanIndex = 0
    /\ emittedKeys = <<>>

---------------------------------------------------------------------------
(* Spec: every store operation, in any order, from the empty store *)

Init == StoreInit /\ TocIdle

Next ==
    \/ \E partial \in AddPartials :
           nextId <= MaxIds /\ AddChapter(partial) /\ UNCHANGED tocVars
    \/ \E id \in ChapterIds \cup AbsentIds, partial \in UpdatePartials :
           UpdateChapter(id, partial) /\ UNCHANGED tocVars
    \/ \E id \in ChapterIds \cup AbsentIds :
           RemoveChapter(id) /\ UNCHANGED tocVars
    \/ \E list \in ReorderLists :
           ReorderChapters(list) /\ UNCHANGED tocVars
    \/ \E partial \in SettingsPartials :
           UpdateSettings(partial) /\ UNCHANGED tocVars
    \/ CalculatePageNumbers /\ UNCHANGED tocVars
    \/ \E chapterId \in ChapterIds \cup AbsentIds :
           nextId <= MaxIds /\ AddSubChapter(chapterId) /\ UNCHANGED tocVars
    \/ \E chapterId \in ChapterIds \cup AbsentIds,
          subChapterId \in SubChapterIds \cup AbsentIds :
           RemoveSubChapter(chapterId, subChapterId) /\ UNCHANGED tocVars

Spec == Init /\ [][Next]_vars

---------------------------------------------------------------------------
(* CrudSpec: addChapter, updateChapter and removeChapter only, from the    *)
(* empty store                                                             *)

CrudNext ==
    \/ \E partial \in CrudAddPartials :
           nextId <= MaxCrudIds /\ AddChapter(partial) /\ UNCHANGED tocVars
    \/ \E id \in ChapterIds \cup AbsentIds, partial \in CrudUpdatePartials :
           UpdateChapter(id, partial) /\ UNCHANGED tocVars
    \/ \E id \in ChapterIds \cup AbsentIds :
           RemoveChapter(id) /\ UNCHANGED tocVars

CrudSpec == Init /\ [][CrudNext]_vars

---------------------------------------------------------------------------
(* ListSpec: one operation called on a store holding any list of up to     *)
(* MaxList chapters, followed by any number of calculatePageNumbers calls. *)
(* The store it starts from is the one these calls leave:                  *)
(*   addChapter({content, images, subChapters}) for each entry in turn,    *)
(*   updateChapter(id, {type}) for each entry,                             *)
(*   addSubChapter(id, title) for each full entry,                         *)
(*   updateSettings(partial) for each field of the settings.               *)

\* an entry of the list: its type, and whether it is empty (no content, no
\* images, no subchapters) or full (a long content, two images, a
\* subchapter with a long content and an empty one); the full entries are
\* one of each page counter, roman and arabic
EntryShapes ==
    [type : Types, full : {FALSE}]
        \cup [type : {"frontmatter", "chapter"}, full : {TRUE}]
ListShapes == SeqsUpTo(EntryShapes, MaxList)

ShapePartial(shapes, k) ==
    IF shapes[k].full
    THEN [content |-> 2000, images |-> <<30, 80>>,
          subChapters |-> <<[id |-> Len(shapes) + k, content |-> 2000,
                             pageNumber |-> Undefined]>>]
    ELSE [content |-> 0]

RECURSIVE AddAll(_, _)
AddAll(shapes, k) ==
    IF k = 0 THEN <<>>
    ELSE AddChapterResult(AddAll(shapes, k - 1), k, ShapePartial(shapes, k))

RECURSIVE TypeAll(_, _)
TypeAll(shapes, k) ==
    IF k = 0 THEN AddAll(shapes, Len(shapes))
    ELSE UpdateChapterResult(TypeAll(shapes, k - 1), k,
                             [type |-> shapes[k].type])

RECURSIVE SubAll(_, _)
SubAll(shapes, k) ==
    IF k = 0 THEN TypeAll(shapes, Len(shapes))
    ELSE IF shapes[k].full
         THEN AddSubChapterResult(SubAll(shapes, k - 1), k,
                                  2 * Len(shapes) + k, defaultSettings)
         ELSE SubAll(shapes, k - 1)

BuiltStore(shapes) == SubAll(shapes, Len(shapes))

\* paper and margins: the defaults; Letter; 10.5 cm margins all round on A4
\* (no width left: 0 characters per page) and on Letter (10 characters per
\* page); 10.5 cm left and right with 15 cm top and bottom (no width and a
\* negative height); 11 cm all round (a negative width)
PaperChoices ==
    { [paperSize |-> "A4",
       margins |-> [top |-> 254, bottom |-> 254, left |-> 254, right |-> 254]],
      [paperSize |-> "Letter",
       margins |-> [top |-> 254, bottom |-> 254, left |-> 254, right |-> 254]],
      [paperSize |-> "A4",
       margins |-> [top |-> 1050, bottom |-> 1050, left |-> 1050, right |-> 1050]],
      [paperSize |-> "Letter",
       margins |-> [top |-> 1050, bottom |-> 1050, left |-> 1050, right |-> 1050]],
      [paperSize |-> "A4",
       margins |-> [top |-> 1500, bottom |-> 1500, left |-> 1050, right |-> 1050]],
      [paperSize |-> "A4",
       margins |-> [top |-> 1100, bottom |-> 1100, left |-> 1100, right |-> 1100]] }

\* each paper and margins without a cover, and the defaults with a cover
SettingsChoices ==
    {Merge(defaultSettings, paper) : paper \in PaperChoices}
        \cup {Merge(defaultSettings, [coverImage |-> "cover.png"])}

ListInit ==
    /\ \E shapes \in ListShapes :
           /\ chapters = BuiltStore(shapes)
           /\ nextId = 3 * Len(shapes) + 1
    /\ settings \in SettingsChoices
    /\ lastOp = Op("create")
    /\ TocIdle

ListNext ==
    \/ \E type \in Types :
           /\ lastOp.op = "create"
           /\ AddChapter([type |-> type])
           /\ UNCHANGED tocVars
    \/ \E list \in ReorderLists :
           /\ lastOp.op = "create"
           /\ ReorderChapters(list)
           /\ UNCHANGED tocVars
    \/ \E chapterId \in ChapterIds \cup AbsentIds :
           /\ lastOp.op = "create"
           /\ AddSubChapter(chapterId)
           /\ UNCHANGED tocVars
    \/ \E chapterId \in ChapterIds \cup AbsentIds,
          subChapterId \in SubChapterIds \cup AbsentIds :
           /\ lastOp.op = "create"
           /\ RemoveSubChapter(chapterId, subChapterId)
           /\ UNCHANGED tocVars
    \/ CalculatePageNumbers /\ UNCHANGED tocVars

ListSpec == ListInit /\ [][ListNext]_vars

---------------------------------------------------------------------------
(* InsertSpec: one addChapter call on a store holding any list of up to    *)
(* MaxInsert empty entries, of any types in any order (the lists that      *)
(* addChapter calls followed by updateChapter(id, {type}) calls leave).    *)

InsertShapes == SeqsUpTo([type : Types, full : {FALSE}], MaxInsert)

InsertInit ==
    /\ \E shapes \in InsertShapes :
           /\ chapters = BuiltStore(shapes)
           /\ nextId = 3 * Len(shapes) + 1
    /\ settings = defaultSettings
    /\ lastOp = Op("create")
    /\ TocIdle

InsertNext ==
    \E partial \in AddPartials :
        /\ lastOp.op = "create"
        /\ AddChapter(partial)
        /\ UNCHANGED tocVars

InsertSpec == InsertInit /\ [][InsertNext]_vars

---------------------------------------------------------------------------
(* The extractor: text.  A string is the sequence of its characters. *)

UpperCase ==
    <<"A", "B", "C", "D", "E", "F", "G", "H", "I", "J", "K", "L", "M",
      "N", "O", "P", "Q", "R", "S", "T", "U", "V", "W", "X", "Y", "Z">>
LowerCase ==
    <<"a", "b", "c", "d", "e", "f", "g", "h", "i", "j", "k", "l", "m",
      "n", "o", "p", "q", "r", "s", "t", "u", "v", "w", "x", "y", "z">>
Digits == <<"0", "1", "2", "3", "4", "5", "6", "7", "8", "9">>

\* the letter a case-insensitive pattern compares
Fold(c) ==
    IF \E i \in DOMAIN UpperCase : UpperCase[i] = c
    THEN LowerCase[CHOOSE i \in DOMAIN UpperCase : UpperCase[i] = c]
    ELSE c

\* \d
IsDigit(c) == \E i \in DOMAIN Digits : Digits[i] = c
\* \s
IsSpace(c) == c \in {" ", "\t", "\r", "\f"}
\* what "." does not match
IsLineTerminator(c) == c \in {"\n", "\r"}

\* String(n), n >= 0
RECURSIVE StringOf(_)
StringOf(n) ==
    IF n < 10 THEN <<Digits[n + 1]>>
    ELSE StringOf(n \div 10) \o <<Digits[(n % 10) + 1]>>

\* str.trim()
RECURSIVE TrimStart(_)
TrimStart(str) ==
    IF str # <<>> /\ IsSpace(Head(str)) THEN TrimStart(Tail(str)) ELSE str
RECURSIVE TrimEnd(_)
TrimEnd(str) ==
    IF str # <<>> /\ IsSpace(str[Len(str)])
    THEN TrimEnd(SubSeq(str, 1, Len(str) - 1))
    ELSE str
Trim(str) == TrimEnd(TrimStart(str))

\* the literal word (in lower case) matches str at position i, ignoring case
MatchesAt(str, i, word) ==
    /\ i + Len(word) - 1 <= Len(str)
    /\ \A j \in DOMAIN word : Fold(str[i + j - 1]) = word[j]

\* the position after the digits that start at i
RECURSIVE SkipDigits(_, _)
SkipDigits(str, i) ==
    IF i <= Len(str) /\ IsDigit(str[i]) THEN SkipDigits(str, i + 1) ELSE i

\* the position after what ".*" matches from i
RECURSIVE SkipLine(_, _)
SkipLine(str, i) ==
    IF i <= Len(str) /\ ~IsLineTerminator(str[i])
    THEN SkipLine(str, i + 1)
    ELSE i

\* the position after what "[:\s]?.*" matches from i
SkipTail(str, i) ==
    IF i <= Len(str) /\ (str[i] = ":" \/ IsSpace(str[i]))
    THEN SkipLine(str, i + 1)
    ELSE SkipLine(str, i)

KataPengantarWord ==
    <<"k", "a", "t", "a", " ", "p", "e", "n", "g", "a", "n", "t", "a", "r">>
DaftarIsiWord ==
    <<"d", "a", "f", "t", "a", "r", " ", "i", "s", "i">>
BabWord ==
    <<"b", "a", "b", " ">>
BabOneWord ==
    <<"b", "a", "b", " ", "1">>

\* where /(Kata Pengantar|Daftar Isi)/gi matches at position i: the match
SpecialAt(str, i) ==
    IF MatchesAt(str, i, KataPengantarWord)
    THEN SubSeq(str, i, i + Len(KataPengantarWord) - 1)
    ELSE IF MatchesAt(str, i, DaftarIsiWord)
         THEN SubSeq(str, i, i + Len(DaftarIsiWord) - 1)
         ELSE <<>>

\* /Bab \d+[:\s]?.*/gi at position i
BabAt(str, i) ==
    IF MatchesAt(str, i, BabWord) /\ SkipDigits(str, i + 4) > i + 4
    THEN SubSeq(str, i, SkipTail(str, SkipDigits(str, i + 4)) - 1)
    ELSE <<>>

\* /\d+\.\d+[:\s]?.*/gi at position i
SubbabAt(str, i) ==
    LET dot == SkipDigits(str, i) IN
    IF /\ dot > i
       /\ dot <= Len(str)
       /\ str[dot] = "."
       /\ SkipDigits(str, dot + 1) > dot + 1
    THEN SubSeq(str, i, SkipTail(str, SkipDigits(str, dot + 1)) - 1)
    ELSE <<>>

\* line.match(pattern): the first match, <<>> when match returns null
SpecialMatch(line) ==
    IF \E i \in DOMAIN line : SpecialAt(line, i) # <<>>
    THEN SpecialAt(line,
             CHOOSE i \in DOMAIN line :
                 /\ SpecialAt(line, i) # <<>>
                 /\ \A j \in 1..(i - 1) : SpecialAt(line, j) = <<>>)
    ELSE <<>>

BabMatch(line) ==
    IF \E i \in DOMAIN line : BabAt(line, i) # <<>>
    THEN BabAt(line,
             CHOOSE i \in DOMAIN line :
                 /\ BabAt(line, i) # <<>>
                 /\ \A j \in 1..(i - 1) : BabAt(line, j) = <<>>)
    ELSE <<>>

SubbabMatch(line) ==
    IF \E i \in DOMAIN line : SubbabAt(line, i) # <<>>
    THEN SubbabAt(line,
             CHOOSE i \in DOMAIN line :
                 /\ SubbabAt(line, i) # <<>>
                 /\ \A j \in 1..(i - 1) : SubbabAt(line, j) = <<>>)
    ELSE <<>>

\* /Bab 1/i.test(text), text the lines of page joined by "\n"
HasBabOne(page) ==
    \E l \in DOMAIN page :
        \E i \in DOMAIN page[l] : MatchesAt(page[l], i, BabOneWord)

\* lines[lines.indexOf(line) + 1], trimmed; '' when there is none
NextLineTitle(lines, line) ==
    LET first == CHOOSE l \in DOMAIN lines :
                     /\ lines[l] = line
                     /\ \A m \in 1..(l - 1) : lines[m] # line
    IN IF first + 1 <= Len(lines) THEN Trim(lines[first + 1]) ELSE <<>>

romanNumerals ==
    << <<"i">>, <<"i", "i">>, <<"i", "i", "i">>, <<"i", "v">>, <<"v">>,
       <<"v", "i">>, <<"v", "i", "i">>, <<"v", "i", "i", "i">>,
       <<"i", "x">>, <<"x">> >>

HalamanText ==
    <<" ", "-", " ", "H", "a", "l", "a", "m", "a", "n", " ">>
BabLabel ==
    <<"B", "A", "B", " ">>
ColonText ==
    <<" ", ":", " ">>

---------------------------------------------------------------------------
(* The extractor: what one line does to the table of contents.  The locals *)
(* tableOfContents, seenHeadings and romanIndex travel in a record st,     *)
(* with keys, the heading text behind each entry pushed.                   *)

\* a front-matter branch whose decimal fallback is String(romanIndex)
SpecialStepZeroBased(st, line) ==
    LET specialHeading == Trim(SpecialMatch(line))
        romanPage ==
            IF st.romanIndex + 1 <= Len(romanNumerals)
            THEN romanNumerals[st.romanIndex + 1]
            ELSE StringOf(st.romanIndex)
    IN IF SpecialMatch(line) # <<>> /\ specialHeading \notin st.seenHeadings
       THEN [st EXCEPT
                !.tableOfContents = Append(@,
                    [type       |-> "frontmatter",
                     title      |-> specialHeading,
                     content    |-> specialHeading \o HalamanText \o romanPage,
                     pageNumber |-> romanPage]),
                !.seenHeadings = @ \cup {specialHeading},
                !.romanIndex = @ + 1,
                !.keys = Append(@, specialHeading)]
       ELSE st

\* the front-matter branch (specialMatch)
SpecialStep(st, line) ==
    LET specialHeading == Trim(SpecialMatch(line))
        romanPage ==
            IF st.romanIndex + 1 <= Len(romanNumerals)
            THEN romanNumerals[st.romanIndex + 1]
            ELSE StringOf(st.romanIndex + 1)
    IN IF SpecialMatch(line) # <<>> /\ specialHeading \notin st.seenHeadings
       THEN [st EXCEPT
                !.tableOfContents = Append(@,
                    [type       |-> "frontmatter",
                     title      |-> specialHeading,
                     content    |-> specialHeading \o HalamanText \o romanPage,
                     pageNumber |-> romanPage]),
                !.seenHeadings = @ \cup {specialHeading},
                !.romanIndex = @ + 1,
                !.keys = Append(@, specialHeading)]
       ELSE st

\* a label number that counts the chapter entries only
LabelNumberOfChapters(st) ==
    Cardinality({i \in DOMAIN st.tableOfContents :
                    st.tableOfContents[i].type = "chapter"}) + 1

\* the number written in a chapter entry's label
LabelNumber(st) == Len(st.tableOfContents) + 1

\* a chapter branch that does not wait for main content
BabStepUnguarded(st, line, lines, started, counter) ==
    LET babHeading == Trim(BabMatch(line))
        babTitle == NextLineTitle(lines, line)
    IN IF /\ BabMatch(line) # <<>>
          /\ babHeading \notin st.seenHeadings
       THEN [st EXCEPT
                !.tableOfContents = Append(@,
                    [type       |-> "chapter",
                     title      |-> babTitle,
                     content    |-> BabLabel \o StringOf(LabelNumber(st))
                                        \o ColonText \o babTitle,
                     pageNumber |-> counter]),
                !.seenHeadings = @ \cup {babHeading},
                !.keys = Append(@, babHeading)]
       ELSE st

\* the chapter branch (babMatch)
BabStep(st, line, lines, started, counter) ==
    LET babHeading == Trim(BabMatch(line))
        babTitle == NextLineTitle(lines, line)
    IN IF /\ BabMatch(line) # <<>>
          /\ babHeading \notin st.seenHeadings
          /\ started
       THEN [st EXCEPT
                !.tableOfContents = Append(@,
                    [type       |-> "chapter",
                     title      |-> babTitle,
                     content    |-> BabLabel \o StringOf(LabelNumber(st))
                                        \o ColonText \o babTitle,
                     pageNumber |-> counter]),
                !.seenHeadings = @ \cup {babHeading},
                !.keys = Append(@, babHeading)]
       ELSE st

\* a subchapter branch that does not record the heading as seen
SubbabStepForgetful(st, line, started, counter) ==
    LET subbabHeading == Trim(SubbabMatch(line))
    IN IF /\ SubbabMatch(line) # <<>>
          /\ subbabHeading \notin st.seenHeadings
          /\ started
       THEN [st EXCEPT
                !.tableOfContents = Append(@,
                    [type       |-> "subchapter",
                     title      |-> subbabHeading,
                     content    |-> subbabHeading \o HalamanText
                                        \o StringOf(counter),
                     pageNumber |-> counter]),
                !.keys = Append(@, subbabHeading)]
       ELSE st

\* the subchapter branch (subbabMatch)
SubbabStep(st, line, started, counter) ==
    LET subbabHeading == Trim(SubbabMatch(line))
    IN IF /\ SubbabMatch(line) # <<>>
          /\ subbabHeading \notin st.seenHeadings
          /\ started
       THEN [st EXCEPT
                !.tableOfContents = Append(@,
                    [type       |-> "subchapter",
                     title      |-> subbabHeading,
                     content    |-> subbabHeading \o HalamanText
                                        \o StringOf(counter),
                     pageNumber |-> counter]),
                !.seenHeadings = @ \cup {subbabHeading},
                !.keys = Append(@, subbabHeading)]
       ELSE st

\* the body of lines.forEach for one line
LineStep(st, line, lines, started, counter) ==
    SubbabStep(BabStep(SpecialStep(st, line), line, lines, started, counter),
               line, started, counter)

---------------------------------------------------------------------------
(* The extractor: the documents it is given *)

LineKataPengantar ==
    <<"K", "a", "t", "a", " ", "P", "e", "n", "g", "a", "n", "t", "a", "r">>
LineHello ==
    <<"h", "e", "l", "l", "o">>
LineBab1 ==
    <<"B", "a", "b", " ", "1">>
LineIntroduction ==
    <<"I", "n", "t", "r", "o", "d", "u", "c", "t", "i", "o", "n">>
LineOverview ==
    <<"1", ".", "1", " ", "O", "v", "e", "r", "v", "i", "e", "w">>
LineBody ==
    <<"b", "o", "d", "y">>
LineBab2 ==
    <<"B", "a", "b", " ", "2">>
LineNext ==
    <<"N", "e", "x", "t">>
LineKataLower ==
    <<"k", "a", "t", "a", " ", "p", "e", "n", "g", "a", "n", "t", "a", "r">>
LineKataUpper ==
    <<"K", "A", "T", "A", " ", "P", "E", "N", "G", "A", "N", "T", "A", "R">>
LineKataMixed1 ==
    <<"K", "a", "t", "a", " ", "p", "e", "n", "g", "a", "n", "t", "a", "r">>
LineKataMixed2 ==
    <<"k", "a", "t", "a", " ", "P", "e", "n", "g", "a", "n", "t", "a", "r">>
LineKataMixed3 ==
    <<"K", "A", "T", "A", " ", "p", "e", "n", "g", "a", "n", "t", "a", "r">>
LineDaftarIsi ==
    <<"D", "a", "f", "t", "a", "r", " ", "I", "s", "i">>
LineDaftarLower ==
    <<"d", "a", "f", "t", "a", "r", " ", "i", "s", "i">>
LineDaftarUpper ==
    <<"D", "A", "F", "T", "A", "R", " ", "I", "S", "I">>
LineDaftarMixed1 ==
    <<"D", "a", "f", "t", "a", "r", " ", "i", "s", "i">>
LineDaftarMixed2 ==
    <<"d", "a", "f", "t", "a", "r", " ", "I", "s", "i">>
LineDaftarMixed3 ==
    <<"D", "A", "F", "T", "A", "R", " ", "i", "s", "i">>
LineSeeBab1 ==
    <<"l", "i", "h", "a", "t", " ", "B", "a", "b", " ", "1", " ", "d", "i",
      " ", "s", "i", "n", "i">>
LineBab7 ==
    <<"B", "a", "b", " ", "7", ":", " ", "P", "e", "n", "u", "t", "u", "p",
      " ">>
LineSection ==
    <<" ", "2", ".", "3", " ", "D", "a", "f", "t", "a", "r", " ", "I", "s",
      "i">>

\* the pages of the worked example
PageKata == <<LineKataPengantar, LineHello>>
PageBab1 == <<LineBab1, LineIntroduction>>
PageOverview == <<LineOverview, LineBody>>
PageBab2 == <<LineBab2, LineNext>>
ExamplePages == <<PageKata, PageBab1, PageOverview, PageBab2>>

\* front-matter labels in twelve spellings, one of them met on PageKata too
PageFrontA ==
    <<LineKataLower, LineKataUpper, LineKataMixed1, LineKataMixed2,
      LineKataMixed3, LineKataPengantar>>
PageFrontB ==
    <<LineDaftarIsi, LineDaftarLower, LineDaftarUpper, LineDaftarMixed1,
      LineDaftarMixed2, LineDaftarMixed3>>
\* "Bab 1" inside a sentence, a chapter number that is not the running
\* count, a heading to trim, a heading met on PageOverview too
PageMixed == <<LineSeeBab1, LineBab7, LineOverview>>
\* the same heading twice on one page, and a line matching two patterns
PageTwice == <<LineBab2, LineBab2, LineSection>>

\* the pages documents are made of; PageFrontA stands for PageKata and
\* PageTwice for PageBab2 in them
PagePool ==
    {PageBab1, PageOverview, PageFrontA, PageFrontB, PageMixed, PageTwice}

Documents == SeqsUpTo(PagePool, MaxPages) \cup {ExamplePages}

---------------------------------------------------------------------------
(* TocSpec: processTableOfContents(pagesText), a line at a time *)

StoreIdle ==
    /\ chapters = <<>>
    /\ settings = defaultSettings
    /\ nextId = 1
    /\ lastOp = Op("create")

TocInit ==
    /\ pagesText \in Documents
    /\ phase = "page"
    /\ pageIndex = 1
    /\ lineIndex = 1
    /\ tableOfContents = <<>>
    /\ seenHeadings = {}
    /\ pageCounter = 0
    /\ isMainContentStarted = FALSE
    /\ romanIndex = 0
    /\ emittedKeys = <<>>
    /\ ExtractIdle
    /\ StoreIdle

\* a head of the page loop that starts the counter at the page's index
BeginPageByIndex ==
    /\ phase = "page"
    /\ pageIndex <= Len(pagesText)
    /\ IF ~isMainContentStarted /\ HasBabOne(pagesText[pageIndex])
       THEN isMainContentStarted' = TRUE /\ pageCounter' = pageIndex
       ELSE UNCHANGED <<isMainContentStarted, pageCounter>>
    /\ phase' = "line"
    /\ lineIndex' = 1
    /\ UNCHANGED <<pagesText, pageIndex, tableOfContents, seenHeadings,
                   romanIndex, emittedKeys>>

\* the head of pagesText.forEach: the test for "Bab 1"
BeginPage ==
    /\ phase = "page"
    /\ pageIndex <= Len(pagesText)
    /\ IF ~isMainContentStarted /\ HasBabOne(pagesText[pageIndex])
       THEN isMainContentStarted' = TRUE /\ pageCounter' = 1
       ELSE UNCHANGED <<isMainContentStarted, pageCounter>>
    /\ phase' = "line"
    /\ lineIndex' = 1
    /\ UNCHANGED <<pagesText, pageIndex, tableOfContents, seenHeadings,
                   romanIndex, emittedKeys>>

\* lines.forEach: one line
ScanLine ==
    /\ phase = "line"
    /\ lineIndex <= Len(pagesText[pageIndex])
    /\ LET lines == pagesText[pageIndex]
           st == LineStep([tableOfContents |-> tableOfContents,
                           seenHeadings |-> seenHeadings,
                           romanIndex |-> romanIndex,
                           keys |-> emittedKeys],
                          lines[lineIndex], lines, isMainContentStarted,
                          pageCounter)
       IN /\ tableOfContents' = st.tableOfContents
          /\ seenHeadings' = st.seenHeadings
          /\ romanIndex' = st.romanIndex
          /\ emittedKeys' = st.keys
    /\ lineIndex' = lineIndex + 1
    /\ UNCHANGED <<pagesText, phase, pageIndex, pageCounter,
                   isMainContentStarted>>

\* the end of the page: the page counter
EndPage ==
    /\ phase = "line"
    /\ lineIndex > Len(pagesText[pageIndex])
    /\ pageCounter' = IF isMainContentStarted THEN pageCounter + 1
                      ELSE pageCounter
    /\ pageIndex' = pageIndex + 1
    /\ phase' = "page"
    /\ UNCHANGED <<pagesText, lineIndex, tableOfContents, seenHeadings,
                   isMainContentStarted, romanIndex, emittedKeys>>

\* return tableOfContents
Return ==
    /\ phase = "page"
    /\ pageIndex > Len(pagesText)
    /\ phase' = "done"
    /\ UNCHANGED <<pagesText, pageIndex, lineIndex, tableOfContents,
                   seenHeadings, pageCounter, isMainContentStarted,
                   romanIndex, emittedKeys>>

TocNext ==
    \/ BeginPage /\ UNCHANGED <<storeVars, extractVars>>
    \/ ScanLine /\ UNCHANGED <<storeVars, extractVars>>
    \/ EndPage /\ UNCHANGED <<storeVars, extractVars>>
    \/ Return /\ UNCHANGED <<storeVars, extractVars>>

TocSpec == TocInit /\ [][TocNext]_vars

---------------------------------------------------------------------------
(* ExtractSpec: extractTableOfContents(pdfBytes), an await at a time *)

\* processTableOfContents as one call: lines.forEach from line k on
RECURSIVE ScanLines(_, _, _, _, _)
ScanLines(st, lines, k, started, counter) ==
    IF k > Len(lines) THEN st
    ELSE ScanLines(LineStep(st, lines[k], lines, started, counter),
                   lines, k + 1, started, counter)

\* pagesText.forEach from page p on
RECURSIVE ScanPages(_, _, _, _, _)
ScanPages(st, pages, p, started, counter) ==
    IF p > Len(pages) THEN st.tableOfContents
    ELSE LET flip == ~started /\ HasBabOne(pages[p])
             nowStarted == started \/ flip
             nowCounter == IF flip THEN 1 ELSE counter
         IN ScanPages(ScanLines(st, pages[p], 1, nowStarted, nowCounter),
                      pages, p + 1, nowStarted,
                      IF nowStarted THEN nowCounter + 1 ELSE nowCounter)

ProcessTableOfContents(pages) ==
    ScanPages([tableOfContents |-> <<>>, seenHeadings |-> {},
               romanIndex |-> 0, keys |-> <<>>],
              pages, 1, FALSE, 0)

\* the lines of items.map(item => item.str).join('\n'): a page without
\* items gives the empty text, which is one empty line
PageText(items) == IF items = <<>> THEN << <<>> >> ELSE items

RECURSIVE AllPageTexts(_)
AllPageTexts(doc) ==
    IF doc = <<>> THEN <<>>
    ELSE <<PageText(Head(doc))>> \o AllPageTexts(Tail(doc))

\* the documents: up to MaxPdfPages pages, each one of the pool or without
\* text items
PdfDocuments == SeqsUpTo(PagePool \cup {<<>>}, MaxPdfPages)

\* the message of the error thrown by the catch block
GenericMessage == "Gagal mengekstrak daftar isi dari PDF"

\* the error a step raises when it fails
FaultOf(stage) ==
    CASE stage = "getDocument" -> "InvalidPDFException"
      [] stage = "getPage" -> "getPage rejected"
      [] stage = "getTextContent" -> "getTextContent rejected"
      [] OTHER -> "TypeError"

\* a catch block that throws what it caught
RejectionWithCause(error) == [kind |-> "error", message |-> error]

\* throw new Error(...) in the catch block
Rejection(error) == [kind |-> "error", message |-> GenericMessage]

ExtractInit ==
    /\ pdf \in PdfDocuments
    /\ callStage = "getDocument"
    /\ thrown = "none"
    /\ outcome = [kind |-> "pending"]
    /\ pagesText = <<>>
    /\ phase = "idle"
    /\ pageIndex = 0
    /\ lineIndex = 0
    /\ tableOfContents = <<>>
    /\ seenHeadings = {}
    /\ pageCounter = 0
    /\ isMainContentStarted = FALSE
    /\ romanIndex = 0
    /\ emittedKeys = <<>>
    /\ StoreIdle

\* what every step of the call leaves alone
ExtractFrame ==
    UNCHANGED <<storeVars, pdf, phase, pageIndex, lineIndex, tableOfContents,
                seenHeadings, pageCounter, isMainContentStarted, romanIndex,
                emittedKeys>>

\* await pdfjsLib.getDocument(...).promise resolves
GetDocument ==
    /\ callStage = "getDocument"
    /\ callStage' = IF Len(pdf) >= 1 THEN "getPage" ELSE "process"
    /\ UNCHANGED <<pagesText, thrown, outcome>>
    /\ ExtractFrame

\* await pdf.getPage(i) resolves
GetPage ==
    /\ callStage = "getPage"
    /\ callStage' = "getTextContent"
    /\ UNCHANGED <<pagesText, thrown, outcome>>
    /\ ExtractFrame

\* await page.getTextContent() resolves; the page text is pushed
GetTextContent ==
    /\ callStage = "getTextContent"
    /\ pagesText' = Append(pagesText, PageText(pdf[Len(pagesText) + 1]))
    /\ callStage' = IF Len(pagesText) + 1 < Len(pdf) THEN "getPage"
                    ELSE "process"
    /\ UNCHANGED <<thrown, outcome>>
    /\ ExtractFrame

\* return processTableOfContents(pagesText)
Process ==
    /\ callStage = "process"
    /\ outcome' = [kind |-> "value",
                   value |-> ProcessTableOfContents(pagesText)]
    /\ callStage' = "returned"
    /\ UNCHANGED <<pagesText, thrown>>
    /\ ExtractFrame

\* the step the call is at raises an error inside the try block
Fault ==
    /\ callStage \in {"getDocument", "getPage", "getTextContent", "process"}
    /\ thrown' = FaultOf(callStage)
    /\ callStage' = "catch"
    /\ UNCHANGED <<pagesText, outcome>>
    /\ ExtractFrame

\* catch (error): log it and throw the generic error
Catch ==
    /\ callStage = "catch"
    /\ outcome' = Rejection(thrown)
    /\ callStage' = "rejected"
    /\ UNCHANGED <<pagesText, thrown>>
    /\ ExtractFrame

ExtractNext ==
    \/ GetDocument
    \/ GetPage
    \/ GetTextContent
    \/ Process
    \/ Fault
    \/ Catch

\* the steps that wait on the PDF library or leave the try block
AwaitOrThrow == GetDocument \/ GetPage \/ GetTextContent \/ Fault \/ Catch

\* every awaited promise settles and the synchronous steps run on: a call
\* that has not ended does not stay where it is forever
ExtractSpec == ExtractInit /\ [][ExtractNext]_vars /\ WF_vars(AwaitOrThrow)

---------------------------------------------------------------------------
(* Claims about the store *)

\* the place of a type in the order frontmatter, toc, chapter, backmatter
Rank(type) ==
    CASE type = "frontmatter" -> 1
      [] type = "toc" -> 2
      [] type = "chapter" -> 3
      [] OTHER -> 4

\* the list is in the order frontmatter, toc, chapter, backmatter
Partitioned(chs) ==
    \A i, j \in DOMAIN chs : i < j => Rank(chs[i].type) <= Rank(chs[j].type)

\* the 'chapter'-typed entries carry pageNumber 1, 2, ..., K in list order
ChaptersNumbered(chs) ==
    \A i \in DOMAIN chs :
        chs[i].type = "chapter" =>
            chs[i].pageNumber =
                Num(Cardinality({j \in 1..i : chs[j].type = "chapter"}))

\* C1: from the empty store, after every addChapter, updateChapter and
\* removeChapter call of any sequence of such calls, the entries of type
\* 'chapter' carry pageNumber 1, 2, ..., K in list order.
C1_NumberedAfterCrud == ChaptersNumbered(chapters)

\* an updateChapter call has returned leaving two chapters with distinct
\* identifiers, the second one numbered 2
C1_Witness ==
    /\ lastOp.op = "updateChapter"
    /\ Len(chapters) = 2
    /\ chapters[1].type = "chapter"
    /\ chapters[2].type = "chapter"
    /\ chapters[2].pageNumber = Num(2)
    /\ chapters[1].id # chapters[2].id

\* C2: whatever list reorderChapters is passed, the list it has stored when
\* it returns holds the frontmatter entries first, then the toc entries, then
\* the chapter entries, then the backmatter entries.
C2_ReorderPartitions ==
    lastOp.op = "reorderChapters" =>
        /\ Partitioned(chapters)
        /\ Len(chapters) = Len(lastOp.arg)

\* reorderChapters has returned from a list that was not in that order
C2_Witness ==
    /\ lastOp.op = "reorderChapters"
    /\ ~(\A i, j \in DOMAIN lastOp.arg :
             i < j => Rank(lastOp.arg[i]) <= Rank(lastOp.arg[j]))
    /\ Len(chapters) = 2

\* C3: in every state any sequence of store operations reaches, the chapter
\* list is partitioned in the order frontmatter, toc, chapter, backmatter.
C3_AlwaysPartitioned == Partitioned(chapters)

\* C4: after every structural mutation, reorderChapters, addSubChapter and
\* removeSubChapter included, the entries of type 'chapter' carry pageNumber
\* 1..N in list order.
C4_NumberedAfterMutation ==
    lastOp.op \in {"addChapter", "updateChapter", "removeChapter",
                   "reorderChapters", "addSubChapter", "removeSubChapter"}
        => ChaptersNumbered(chapters)

\* C5: updateChapter or removeChapter with an identifier that matches no
\* chapter, and removeSubChapter with a chapter or subchapter identifier that
\* matches nothing, leave the whole store state as it was.
C5_AbsentIdIsNoOp ==
    [][ ( \/ \E id \in AbsentIds, partial \in UpdatePartials :
                 UpdateChapter(id, partial)
          \/ \E id \in AbsentIds : RemoveChapter(id)
          \/ \E chapterId \in ChapterIds \cup AbsentIds, id \in AbsentIds :
                 RemoveSubChapter(chapterId, id)
          \/ \E chapterId \in AbsentIds, id \in SubChapterIds \cup AbsentIds :
                 RemoveSubChapter(chapterId, id) )
        => (chapters' = chapters /\ settings' = settings) ]_vars

\* the chapters with every stored page number erased
Erased(chs) ==
    [i \in DOMAIN chs |->
        [chs[i] EXCEPT
            !.pageNumber = Undefined,
            !.subChapters =
                [j \in DOMAIN @ |-> [@[j] EXCEPT !.pageNumber = Undefined]]]]

\* C6: calculatePageNumbers called again right after calculatePageNumbers
\* leaves every chapter and subchapter page number as the first call left
\* it; what it computes does not depend on the page numbers stored before.
C6_RecomputeIdempotent ==
    /\ lastOp.op = "calculatePageNumbers" =>
           PageNumbers(chapters, settings) = chapters
    /\ PageNumbers(chapters, settings) = PageNumbers(Erased(chapters), settings)

\* calculatePageNumbers has been called twice in a row on a store with a
\* frontmatter entry holding subchapters
C6_Witness ==
    /\ lastOp.op = "calculatePageNumbers"
    /\ lastOp.again
    /\ \E i \in DOMAIN chapters :
           /\ chapters[i].type = "frontmatter"
           /\ Len(chapters[i].subChapters) = 2

---------------------------------------------------------------------------
(* Claims about the extractor *)

\* the heading texts a line is matched with
HeadingKeys(line) ==
    {Trim(SpecialMatch(line)), Trim(BabMatch(line)), Trim(SubbabMatch(line))}
        \ {<<>>}

KeysOnPage(p) ==
    UNION {HeadingKeys(pagesText[p][l]) : l \in DOMAIN pagesText[p]}

\* the first page whose text contains "Bab 1"; past the end when none does
MainStart ==
    IF \E p \in DOMAIN pagesText : HasBabOne(pagesText[p])
    THEN CHOOSE p \in DOMAIN pagesText :
             /\ HasBabOne(pagesText[p])
             /\ \A q \in 1..(p - 1) : ~HasBabOne(pagesText[q])
    ELSE Len(pagesText) + 1

\* the front-matter labels of the document
SpecialKeys ==
    (UNION {{Trim(SpecialMatch(pagesText[p][l])) : l \in DOMAIN pagesText[p]}
               : p \in DOMAIN pagesText}) \ {<<>>}

\* the headings an entry is due for: the front-matter labels, and the
\* chapter and subchapter headings of the pages from MainStart on
DueKeys ==
    (SpecialKeys \cup
     UNION {UNION {{Trim(BabMatch(pagesText[p][l])),
                    Trim(SubbabMatch(pagesText[p][l]))}
                      : l \in DOMAIN pagesText[p]}
               : p \in MainStart..Len(pagesText)}) \ {<<>>}

\* the number of entries pushed for a heading
Emitted(key) ==
    Cardinality({i \in DOMAIN emittedKeys : emittedKeys[i] = key})

\* no heading stands behind two entries
NoHeadingTwice ==
    /\ Len(emittedKeys) = Len(tableOfContents)
    /\ \A i, j \in DOMAIN emittedKeys :
           i # j => emittedKeys[i] # emittedKeys[j]
    /\ \A i \in DOMAIN tableOfContents :
           tableOfContents[i].type \in {"frontmatter", "subchapter"}
               => tableOfContents[i].title = emittedKeys[i]

\* the headings matched on two separate pages
RepeatedKeys ==
    UNION {IF pq[1] = pq[2] THEN {}
           ELSE KeysOnPage(pq[1]) \cap KeysOnPage(pq[2]) :
              pq \in (DOMAIN pagesText) \X (DOMAIN pagesText)}

\* C7 as stated: at most one entry per matched heading text, and a heading
\* repeated on two separate pages yields exactly one entry.
C7_RepeatedYieldsOne ==
    /\ NoHeadingTwice
    /\ phase = "done" => \A key \in RepeatedKeys : Emitted(key) = 1

\* C7, amended: one run emits at most one entry per matched heading text;
\* a heading, repeated or not, yields exactly one entry when it is a
\* front-matter label or is matched on the first page containing "Bab 1" or
\* on a later page, and no entry otherwise.
C7_OneEntryPerHeading ==
    /\ NoHeadingTwice
    /\ phase = "done" =>
           \A p \in DOMAIN pagesText :
               \A key \in KeysOnPage(p) :
                   Emitted(key) = IF key \in DueKeys THEN 1 ELSE 0

\* a run has ended on a document where a subchapter heading and a
\* front-matter label are each matched on two separate pages, with one entry
\* for each
C7_Witness ==
    /\ phase = "done"
    /\ \E key \in RepeatedKeys \ SpecialKeys : Emitted(key) = 1
    /\ \E key \in RepeatedKeys \cap SpecialKeys : Emitted(key) = 1

TextBab1Introduction ==
    <<"B", "A", "B", " ", "1", " ", ":", " ", "I", "n", "t", "r", "o", "d",
      "u", "c", "t", "i", "o", "n">>
TextBab2Next ==
    <<"B", "A", "B", " ", "2", " ", ":", " ", "N", "e", "x", "t">>
TextBab2Introduction ==
    <<"B", "A", "B", " ", "2", " ", ":", " ", "I", "n", "t", "r", "o", "d",
      "u", "c", "t", "i", "o", "n">>
TextBab4Next ==
    <<"B", "A", "B", " ", "4", " ", ":", " ", "N", "e", "x", "t">>

\* the entries of the worked example, but for the chapter labels and the
\* page numbers
ExampleShape ==
    /\ Len(tableOfContents) = 4
    /\ tableOfContents[1].type = "frontmatter"
    /\ tableOfContents[1].title = LineKataPengantar
    /\ tableOfContents[1].pageNumber = <<"i">>
    /\ tableOfContents[2].type = "chapter"
    /\ tableOfContents[3].type = "subchapter"
    /\ tableOfContents[3].title = LineOverview
    /\ tableOfContents[4].type = "chapter"

C9_LabelIsChapterCount ==
    \A i \in DOMAIN tableOfContents :
        tableOfContents[i].type = "chapter" =>
            tableOfContents[i].content =
                BabLabel
                    \o StringOf(Cardinality({j \in 1..i :
                           tableOfContents[j].type = "chapter"}))
                    \o ColonText \o tableOfContents[i].title

\* the positions of the front-matter entries up to entry i
FrontMatterUpTo(i) ==
    {j \in 1..i : tableOfContents[j].type = "frontmatter"}

\* C10: the k-th front-matter heading recorded gets the k-th roman numeral
\* 'i'..'x' for k <= 10 and the decimal string of k for k > 10; front-matter
\* headings are recorded whether or not main content has started, and their
\* counter does not depend on the page counter.
C10_FrontMatterLabels ==
    /\ \A i \in DOMAIN tableOfContents :
           tableOfContents[i].type = "frontmatter" =>
               LET k == Cardinality(FrontMatterUpTo(i))
               IN tableOfContents[i].pageNumber =
                      IF k <= 10 THEN romanNumerals[k]
                      ELSE <<Digits[(k \div 10) + 1], Digits[(k % 10) + 1]>>
    /\ romanIndex = Cardinality(FrontMatterUpTo(Len(tableOfContents)))
    /\ phase = "done" =>
           {tableOfContents[i].title :
               i \in FrontMatterUpTo(Len(tableOfContents))} = SpecialKeys

\* a run has ended in which the eleventh front-matter heading, recorded
\* after a chapter entry, got the label '11' and the tenth the label 'x'
C10_Witness ==
    /\ phase = "done"
    /\ \E i \in DOMAIN tableOfContents :
           /\ tableOfContents[i].type = "frontmatter"
           /\ Cardinality(FrontMatterUpTo(i)) = 11
           /\ tableOfContents[i].pageNumber = <<"1", "1">>
           /\ tableOfContents[i - 1].pageNumber = <<"x">>
           /\ tableOfContents[1].type = "chapter"
           /\ pageCounter > 1

\* the table holds front-matter entries only
OnlyFrontMatter ==
    \A i \in DOMAIN tableOfContents : tableOfContents[i].type = "frontmatter"

\* C11: no chapter entry and no subchapter entry is emitted for a heading
\* matched on a page before the first page containing 'Bab 1': as long as
\* the scan has not entered that page the table holds front-matter entries
\* only, and with no page containing 'Bab 1' the output holds front-matter
\* entries only.
C11_NothingBeforeBabOne ==
    ~OnlyFrontMatter =>
        LET start == MainStart
        IN /\ start <= Len(pagesText)
           /\ pageIndex >= start
           /\ pageIndex = start => phase # "page"

\* a run has ended on a document whose first page with 'Bab 1' is not the
\* first one: a heading of an earlier page has no entry, and a chapter
\* entry was emitted later
C11_Witness ==
    /\ phase = "done"
    /\ MainStart \in 2..Len(pagesText)
    /\ \E p \in 1..(MainStart - 1) :
           \E key \in KeysOnPage(p) \ DueKeys : Emitted(key) = 0
    /\ \E i \in DOMAIN tableOfContents : tableOfContents[i].type = "chapter"

\* the call has ended
Settled == callStage \in {"returned", "rejected"}

\* C12: every call of extractTableOfContents ends, and ends in one of two
\* ways: it returns the list computed from all pages of the document, or it
\* fails with the generic error; once an error was raised at any step the
\* caller gets no list, and the error it gets is never the one raised.
C12_ListOrGenericError ==
    /\ [](/\ Settled <=> outcome.kind # "pending"
          /\ outcome.kind = "value" =>
                 /\ callStage = "returned"
                 /\ thrown = "none"
                 /\ pagesText = AllPageTexts(pdf)
                 /\ outcome.value = ProcessTableOfContents(AllPageTexts(pdf))
          /\ outcome.kind = "error" =>
                 /\ callStage = "rejected"
                 /\ thrown # "none"
                 /\ outcome = [kind |-> "error", message |-> GenericMessage]
                 /\ outcome.message # thrown
          /\ thrown # "none" => outcome.kind # "value")
    /\ <>Settled

\* a call has failed with the generic error after the first page of a
\* two-page document was read and the fetch of the second one failed
C12_Witness ==
    /\ callStage = "rejected"
    /\ Len(pdf) = 2
    /\ Len(pagesText) = 1
    /\ thrown = "getPage rejected"
    /\ outcome.kind = "error"

---------------------------------------------------------------------------
(* Claims about addChapter *)

\* an entry but for its pageNumber, which every renumbering rewrites
Unnumbered(ch) == [ch EXCEPT !.pageNumber = Undefined]
UnnumberedAll(chs) == [i \in DOMAIN chs |-> Unnumbered(chs[i])]

\* the step is an addChapter call whose new entry has a type in T
AddsOfType(T) ==
    /\ lastOp'.op = "addChapter"
    /\ nextId' = nextId + 1
    /\ \E i \in DOMAIN chapters' :
           chapters'[i].id = nextId /\ chapters'[i].type \in T

\* the list but for the entry at position k
Without(chs, k) == SubSeq(chs, 1, k - 1) \o SubSeq(chs, k + 1, Len(chs))

\* the step puts one new entry at position k and keeps the others in order
InsertsAt(k) ==
    /\ Len(chapters') = Len(chapters) + 1
    /\ k \in DOMAIN chapters'
    /\ chapters'[k].id = nextId
    /\ UnnumberedAll(Without(chapters', k)) = UnnumberedAll(chapters)

\* C13: addChapter with type 'backmatter' places the new entry at the last
\* position of the list, after every existing entry, and leaves the
\* existing entries in their order.
C13_BackmatterAppends ==
    [][AddsOfType({"backmatter"}) => InsertsAt(Len(chapters) + 1)]_vars

\* addChapter({type:'backmatter'}) has returned on a store that held one
\* frontmatter and two chapter entries: the new entry is the fourth
C13_Witness ==
    /\ lastOp.op = "addChapter"
    /\ Len(chapters) = 4
    /\ chapters[1].type = "frontmatter"
    /\ chapters[2].type = "chapter"
    /\ chapters[3].type = "chapter"
    /\ chapters[4].type = "backmatter"
    /\ chapters[4].id = nextId - 1

\* the position of the last entry with a type in T; 0 when there is none
LastPos(chs, T) ==
    IF \E i \in DOMAIN chs : chs[i].type \in T
    THEN CHOOSE i \in DOMAIN chs :
             /\ chs[i].type \in T
             /\ \A j \in (i + 1)..Len(chs) : chs[j].type \notin T
    ELSE 0

\* C16: addChapter with type 'frontmatter' or 'toc' inserts the new entry
\* immediately after the last existing frontmatter/toc entry, and
\* addChapter with type 'chapter' immediately after the last existing
\* chapter entry (after the last frontmatter/toc entry when there is no
\* chapter); all other entries keep their relative order.
C16_InsertsAfterLastOfSegment ==
    [][/\ AddsOfType(PreContent) =>
              InsertsAt(LastPos(chapters, PreContent) + 1)
       /\ AddsOfType({"chapter"}) =>
              InsertsAt((IF LastPos(chapters, {"chapter"}) > 0
                         THEN LastPos(chapters, {"chapter"})
                         ELSE LastPos(chapters, PreContent)) + 1)]_vars

---------------------------------------------------------------------------
(* Claims about calculatePageNumbers *)

\* the entries are paged by the same counter
SameCounter(a, b) == (a.type \in PreContent) <=> (b.type \in PreContent)

\* entry j is the next entry after entry i on the counter of entry i
NextOnCounter(chs, i, j) ==
    /\ i < j
    /\ SameCounter(chs[i], chs[j])
    /\ \A m \in (i + 1)..(j - 1) : ~SameCounter(chs[i], chs[m])

\* the store is as a pagination recompute has left it
Recomputed == lastOp.op = "calculatePageNumbers"

\* C14: under any settings a chapter with content length 0 and no images
\* adds exactly 1 page: with no subchapters, the next entry on the same
\* counter gets a page number exactly 2 higher.
C14_EmptyChapterTakesOnePage ==
    Recomputed =>
        \A i, j \in DOMAIN chapters :
            (/\ NextOnCounter(chapters, i, j)
             /\ chapters[i].content = 0
             /\ chapters[i].images = <<>>
             /\ chapters[i].subChapters = <<>>
             /\ chapters[i].pageNumber.k = "num")
                => chapters[j].pageNumber = Num(chapters[i].pageNumber.v + 2)

---------------------------------------------------------------------------
(* Claims about identifiers *)

\* the identifiers of the list, in list order
IdsOf(chs) == [i \in DOMAIN chs |-> chs[i].id]

\* no two entries of the list share an identifier
UniqueIds(chs) ==
    \A i, j \in DOMAIN chs : i # j => chs[i].id # chs[j].id

\* C15: chapter identifiers are unique and stable: after every store
\* operation no two entries share an identifier, and updateChapter, the
\* only operation that rewrites an entry's fields, leaves every entry's
\* identifier as it was.
C15_IdsUniqueAndStable ==
    [][/\ UniqueIds(chapters')
       /\ lastOp'.op = "updateChapter" =>
              IdsOf(chapters') = IdsOf(chapters)]_vars

---------------------------------------------------------------------------
(* Claims about the extractor's page counter *)

\* the positions of the chapter and subchapter entries
MainEntries == {i \in DOMAIN tableOfContents :
                   tableOfContents[i].type # "frontmatter"}

\* C17: the page number of a chapter or subchapter entry is the running
\* count of pages scanned since main content started: 1 for an entry found
\* on the first page containing 'Bab 1', j + 1 for one found on the j-th
\* page after it, whatever the page's index in the document; the page
\* numbers of these entries are non-decreasing in output order.
C17_PageIsRunningCount ==
    /\ [](\A i, j \in MainEntries :
              i < j => tableOfContents[i].pageNumber
                           <= tableOfContents[j].pageNumber)
    /\ [][\A i \in (Len(tableOfContents) + 1)..Len(tableOfContents') :
              tableOfContents'[i].type # "frontmatter" =>
                  /\ pageIndex >= MainStart
                  /\ tableOfContents'[i].pageNumber
                         = pageIndex - MainStart + 1]_vars

\* a run has ended on a document whose first page with 'Bab 1' is not its
\* first page, with an entry at page 1 and an entry at page 3
C17_Witness ==
    /\ phase = "done"
    /\ MainStart > 1
    /\ \E i, j \in MainEntries :
           /\ tableOfContents[i].pageNumber = 1
           /\ tableOfContents[j].pageNumber = 3

\* entry i is the first entry of the list on its counter
FirstOnCounter(chs, i) ==
    \A m \in 1..(i - 1) : ~SameCounter(chs[i], chs[m])

\* C18: both counters start at 1 and each is incremented once when a cover
\* image is set, the arabic one once more for the title page: after a
\* recompute the first frontmatter/toc entry has page number 1 without a
\* cover image and 2 with one, the first chapter/backmatter entry 2
\* without a cover image and 3 with one.
C18_CountersSeeded ==
    Recomputed =>
        \A i \in DOMAIN chapters :
            FirstOnCounter(chapters, i) =>
                chapters[i].pageNumber =
                    Num((IF chapters[i].type \in PreContent THEN 1 ELSE 2)
                        + (IF settings.coverImage # "null" THEN 1 ELSE 0))

\* C19: the recompute that addSubChapter, removeSubChapter and
\* reorderChapters trigger runs after the mutation, on the mutated list:
\* when any of the three returns, every chapter and subchapter pageNumber,
\* that of a subchapter just added included, is what calculatePageNumbers
\* computes from the list and the settings, and a calculatePageNumbers
\* call that follows changes nothing.
C19_RecomputedOnReturn ==
    lastOp.op \in {"addSubChapter", "removeSubChapter", "reorderChapters"} =>
        /\ chapters = PageNumbers(Erased(chapters), settings)
        /\ chapters = PageNumbers(chapters, settings)
        /\ \A i \in DOMAIN chapters :
               /\ chapters[i].pageNumber # Undefined
               /\ \A j \in DOMAIN chapters[i].subChapters :
                      chapters[i].subChapters[j].pageNumber # Undefined

\* addSubChapter has returned on a chapter that had two subchapters: the
\* third, just added, has a page number above its sibling's
C19_Witness ==
    /\ lastOp.op = "addSubChapter"
    /\ \E i \in DOMAIN chapters :
           /\ Len(chapters[i].subChapters) = 3
           /\ chapters[i].subChapters[3].id = nextId - 1
           /\ chapters[i].subChapters[3].pageNumber.k = "num"
           /\ chapters[i].subChapters[2].pageNumber.k = "num"
           /\ chapters[i].subChapters[3].pageNumber.v
                  > chapters[i].subChapters[2].pageNumber.v

\* the page number is a number, and the number
IsNum(x) == x.k = "num"

\* C20: right after calculatePageNumbers under settings that give a
\* positive characters-per-page, page numbers strictly increase in list
\* order within each counter: an entry's page number is at least 2 above
\* that of the previous entry on its counter; a subchapter's page number is
\* above its parent's, above its preceding sibling's and below that of the
\* next entry on the same counter.
C20_PagesIncrease ==
    (Recomputed /\ CharsPerPage(settings) > 0) =>
        \A i \in DOMAIN chapters :
            LET ch == chapters[i]
                subs == ch.subChapters
            IN /\ IsNum(ch.pageNumber)
               /\ \A j \in DOMAIN chapters :
                      NextOnCounter(chapters, i, j) =>
                          /\ IsNum(chapters[j].pageNumber)
                          /\ chapters[j].pageNumber.v >= ch.pageNumber.v + 2
                          /\ \A k \in DOMAIN subs :
                                 subs[k].pageNumber.v
                                     < chapters[j].pageNumber.v
               /\ \A k \in DOMAIN subs :
                      /\ IsNum(subs[k].pageNumber)
                      /\ subs[k].pageNumber.v > ch.pageNumber.v
                      /\ k > 1 => subs[k].pageNumber.v
                                      > subs[k - 1].pageNumber.v

\* a recompute under the default settings has paged an entry with two
\* subchapters and the next entry on the same counter
C20_Witness ==
    /\ Recomputed
    /\ CharsPerPage(settings) > 0
    /\ \E i, j \in DOMAIN chapters :
           /\ NextOnCounter(chapters, i, j)
           /\ Len(chapters[i].subChapters) = 2
           /\ chapters[i].subChapters[2].pageNumber.v
                  < chapters[j].pageNumber.v

====
